---------------------------- MODULE Spec2Model ----------------------------
(***************************************************************************)
(* Smart Expense Tracker: the Express server (backend/server.js) over the  *)
(* DatabaseManager store (backend/config/database.js, SQLite backend).     *)
(*                                                                         *)
(* Amounts are fixed-point integers counted in thousandths of a currency   *)
(* unit, so 2500.004 is 2500004 and one cent is 10.  Text values (dates,   *)
(* request strings) are sequences of one-character strings.                *)
(***************************************************************************)
EXTENDS Integers, Sequences, FiniteSets, TLC

VARIABLES
    store,      \* rows of table expenses, in rowid order
    lastID,     \* AUTOINCREMENT high-water mark of table expenses
    clock,      \* the wall clock, [year, month]
    reqs,       \* the HTTP requests in flight, one per connection
    response,   \* the response written in the current event-loop turn
    fnArgs,     \* arguments of a direct call of the insight functions
    fnResult,   \* result of that call
    query,      \* a direct call of a store query and the rows it returned
    cloud,      \* the CloudSyncService object
    dbm         \* the DatabaseManager object while it starts up

vars == <<store, lastID, clock, reqs, response, fnArgs, fnResult, query, cloud, dbm>>

-----------------------------------------------------------------------------
(* Bounds of the model *)

MaxStore == 3       \* rows the table can hold in the model
MaxTicks == 1       \* month changes of the wall clock in the model
MaxLen == 3         \* length of the sequences given to the insight functions
MaxTotal == 5       \* largest total / amount given to the insight functions

-----------------------------------------------------------------------------
(* Text *)

Chars == <<"-", ".", "0", "1", "2", "3", "4", "5", "6", "7", "8", "9", "a", "b", "c">>

\* position of a character in the collating order (ASCII order)
CharCode(c) == CHOOSE i \in 1..Len(Chars) : Chars[i] = c

DigitChars == <<"0", "1", "2", "3", "4", "5", "6", "7", "8", "9">>

IsDigit(c) == \E i \in 1..10 : DigitChars[i] = c

DigitVal(c) == (CHOOSE i \in 1..10 : DigitChars[i] = c) - 1

\* Number.prototype.toString of a non-negative integer
RECURSIVE toString(_)
toString(n) ==
    IF n < 10 THEN <<DigitChars[n + 1]>>
    ELSE toString(n \div 10) \o <<DigitChars[(n % 10) + 1]>>

\* String.prototype.padStart(2, '0')
padStart2(s) == IF Len(s) >= 2 THEN s ELSE IF Len(s) = 1 THEN <<"0">> \o s ELSE <<"0", "0">>

\* `${year}-${monthStr}`
yearMonthOf(year, month) == toString(year) \o <<"-">> \o padStart2(toString(month))

\* SQL: text LIKE 'prefix%'
LikePrefix(text, prefix) ==
    /\ Len(text) >= Len(prefix)
    /\ SubSeq(text, 1, Len(prefix)) = prefix

\* SQL text comparison (BINARY collation): a < b
RECURSIVE TextLess(_, _)
TextLess(a, b) ==
    IF b = <<>> THEN FALSE
    ELSE IF a = <<>> THEN TRUE
    ELSE IF Head(a) = Head(b) THEN TextLess(Tail(a), Tail(b))
    ELSE CharCode(Head(a)) < CharCode(Head(b))

-----------------------------------------------------------------------------
(* JavaScript values of the JSON request body *)

Undefined == [t |-> "undefined", v |-> 0, s |-> <<>>]
NaN == [t |-> "NaN", v |-> 0, s |-> <<>>]
Num(n) == [t |-> "number", v |-> n, s |-> <<>>]
Str(s) == [t |-> "string", v |-> 0, s |-> s]

\* thousandths of n whole units
Units(n) == n * 1000

\* ToBoolean
Truthy(x) ==
    CASE x.t = "undefined" -> FALSE
      [] x.t = "NaN" -> FALSE
      [] x.t = "number" -> x.v # 0
      [] x.t = "string" -> x.s # <<>>

\* value of a run of digits read as an integer
RECURSIVE DigitsValue(_)
DigitsValue(s) ==
    IF s = <<>> THEN 0 ELSE DigitsValue(SubSeq(s, 1, Len(s) - 1)) * 10 + DigitVal(s[Len(s)])

\* length of the longest prefix of s made of digits
RECURSIVE DigitRun(_)
DigitRun(s) == IF s # <<>> /\ IsDigit(Head(s)) THEN 1 + DigitRun(Tail(s)) ELSE 0

\* thousandths denoted by the fraction digits f (digits after the third are dropped)
FractionValue(f) ==
    LET d(i) == IF i <= Len(f) THEN DigitVal(f[i]) ELSE 0
    IN d(1) * 100 + d(2) * 10 + d(3)

\* The longest prefix of s that is a decimal literal [-]digits[.digits]:
\* [len |-> its length (0 if none), v |-> its value in thousandths]
DecimalPrefix(s) ==
    LET neg == s # <<>> /\ Head(s) = "-"
        body == IF neg THEN Tail(s) ELSE s
        ilen == DigitRun(body)
        rest == SubSeq(body, ilen + 1, Len(body))
        hasDot == rest # <<>> /\ Head(rest) = "."
        flen == IF hasDot THEN DigitRun(Tail(rest)) ELSE 0
        frac == IF hasDot THEN SubSeq(rest, 2, flen + 1) ELSE <<>>
        mag == Units(DigitsValue(SubSeq(body, 1, ilen))) + FractionValue(frac)
    IN IF ilen = 0 THEN [len |-> 0, v |-> 0]
       ELSE [len |-> (IF neg THEN 1 ELSE 0) + ilen + (IF hasDot THEN 1 + flen ELSE 0),
             v |-> IF neg THEN 0 - mag ELSE mag]

\* parseFloat: the longest numeric prefix of the text of x, NaN if none
parseFloat(x) ==
    CASE x.t = "number" -> x
      [] x.t = "string" ->
            LET p == DecimalPrefix(x.s) IN IF p.len = 0 THEN NaN ELSE Num(p.v)
      [] OTHER -> NaN

\* ToNumber: the whole string must be a numeric literal, '' is 0
ToNumber(x) ==
    CASE x.t = "number" -> x
      [] x.t = "string" ->
            IF x.s = <<>> THEN Num(0)
            ELSE LET p == DecimalPrefix(x.s)
                 IN IF p.len = Len(x.s) THEN Num(p.v) ELSE NaN
      [] OTHER -> NaN

\* x <= 0 : false whenever ToNumber(x) is NaN
LessEqZero(x) == LET n == ToNumber(x) IN n.t = "number" /\ n.v <= 0

-----------------------------------------------------------------------------
(* The store: table expenses of the SQLite backend *)

\* the elements of a sequence
Range(seq) == {seq[i] : i \in 1..Len(seq)}

\* sum of f(row) over the rows of a sequence, here for the column amount
RECURSIVE SumAmount(_)
SumAmount(rows) ==
    IF rows = <<>> THEN 0 ELSE rows[1].amount + SumAmount(Tail(rows))

\* ORDER BY total DESC with nothing to order the equal totals, which then stay
\* in the order the groups were first seen
BeforeFirstSeen(k, a, b) ==
    CASE k = "date" -> TextLess(b.date, a.date)
      [] k = "total" -> a.total > b.total
      [] k = "month" -> TextLess(b.month, a.month)

\* ORDER BY: does row a come strictly before row b
\*   "date"  : ORDER BY date DESC
\*   "total" : ORDER BY total DESC  (equal totals leave SQLite's sorter in
\*             descending category order)
\*   "month" : ORDER BY month DESC
Before(k, a, b) ==
    CASE k = "date" -> TextLess(b.date, a.date)
      [] k = "total" -> \/ a.total > b.total
                        \/ a.total = b.total /\ TextLess(b.category, a.category)
      [] k = "month" -> TextLess(b.month, a.month)

\* x put into the ordered sequence, behind the rows it does not precede
RECURSIVE InsertOrdered(_, _, _)
InsertOrdered(k, sorted, x) ==
    IF sorted = <<>> THEN <<x>>
    ELSE IF Before(k, x, Head(sorted)) THEN <<x>> \o sorted
    ELSE <<Head(sorted)>> \o InsertOrdered(k, Tail(sorted), x)

\* rows in the order of ORDER BY k; rows with equal keys keep their rowid order
RECURSIVE OrderBy(_, _)
OrderBy(k, rows) ==
    IF rows = <<>> THEN <<>>
    ELSE InsertOrdered(k, OrderBy(k, SubSeq(rows, 1, Len(rows) - 1)), rows[Len(rows)])

\* WHERE date LIKE '%-mm-%': the month of any year
RowsOfMonthAnyYear(table, year, month) ==
    SelectSeq(table, LAMBDA row :
        Len(row.date) >= 7 /\ SubSeq(row.date, 5, 7) = <<"-">> \o padStart2(toString(month)))

\* WHERE date LIKE 'yyyy-mm%'
RowsOfMonth(table, year, month) ==
    SelectSeq(table, LAMBDA row : LikePrefix(row.date, yearMonthOf(year, month)))

\* SELECT * FROM expenses ORDER BY date DESC
getAllExpenses(table) == OrderBy("date", table)

\* SELECT * FROM expenses WHERE date LIKE ? ORDER BY date DESC
getExpensesByMonth(table, year, month) == OrderBy("date", RowsOfMonth(table, year, month))

\* one row per value of key among rows, with SUM(amount); groups in first-seen order
RECURSIVE GroupSum(_, _, _)
GroupSum(rows, keys, field) ==
    IF keys = <<>> THEN <<>>
    ELSE LET k == Head(keys)
             members == SelectSeq(rows, LAMBDA row : row[field] = k)
             group == IF field = "category"
                      THEN [category |-> k, total |-> SumAmount(members)]
                      ELSE [month |-> k, total |-> SumAmount(members)]
         IN <<group>> \o GroupSum(rows, Tail(keys), field)

\* the distinct values of a column, in first-seen order
RECURSIVE Distinct(_)
Distinct(vals) ==
    IF vals = <<>> THEN <<>>
    ELSE LET front == Distinct(SubSeq(vals, 1, Len(vals) - 1))
             last == vals[Len(vals)]
         IN IF last \in Range(front) THEN front ELSE Append(front, last)

\* the query without its WHERE clause
getCategoryTotalsAllMonths(table, year, month) ==
    LET cats == Distinct([i \in 1..Len(table) |-> table[i].category])
    IN OrderBy("total", GroupSum(table, cats, "category"))

\* the query without its ORDER BY clause
getCategoryTotalsUnordered(table, year, month) ==
    LET rows == RowsOfMonth(table, year, month)
        cats == Distinct([i \in 1..Len(rows) |-> rows[i].category])
    IN GroupSum(rows, cats, "category")

\* SELECT category, SUM(amount) as total FROM expenses WHERE date LIKE ?
\* GROUP BY category ORDER BY total DESC
getCategoryTotals(table, year, month) ==
    LET rows == RowsOfMonth(table, year, month)
        cats == Distinct([i \in 1..Len(rows) |-> rows[i].category])
    IN OrderBy("total", GroupSum(rows, cats, "category"))

\* strftime('%Y-%m', date) of a date text YYYY-MM-DD
MonthKey(date) == SubSeq(date, 1, 7)

\* SELECT strftime('%Y-%m', date) as month, SUM(amount) as total FROM expenses
\* GROUP BY strftime('%Y-%m', date) ORDER BY month DESC LIMIT 6
MonthLimit == 6

\* the query with ORDER BY month DESC and no LIMIT
getMonthlyTotalsUnlimited(table) ==
    LET keyed == [i \in 1..Len(table) |->
                    [month |-> MonthKey(table[i].date), amount |-> table[i].amount]]
        months == Distinct([i \in 1..Len(keyed) |-> keyed[i].month])
    IN OrderBy("month", GroupSum(keyed, months, "month"))

getMonthlyTotals(table) ==
    LET keyed == [i \in 1..Len(table) |->
                    [month |-> MonthKey(table[i].date), amount |-> table[i].amount]]
        months == Distinct([i \in 1..Len(keyed) |-> keyed[i].month])
        sorted == OrderBy("month", GroupSum(keyed, months, "month"))
    IN SubSeq(sorted, 1, IF Len(sorted) < MonthLimit THEN Len(sorted) ELSE MonthLimit)

\* a row whose id is not taken from the AUTOINCREMENT sequence
InsertedRowSameId(id, expense) ==
    [id |-> 1, date |-> expense.date.s, category |-> expense.category.s,
     amount |-> expense.amount.v, description |-> expense.description.s]

\* INSERT INTO expenses (date, category, amount, description) VALUES (?, ?, ?, ?):
\* the row gets the next AUTOINCREMENT id
InsertedRow(id, expense) ==
    [id |-> id, date |-> expense.date.s, category |-> expense.category.s,
     amount |-> expense.amount.v, description |-> expense.description.s]

\* resolve({ id: this.lastID, ...expense })
addExpenseResult(id, expense) ==
    [id |-> id, date |-> expense.date, category |-> expense.category,
     amount |-> expense.amount, description |-> expense.description]

-----------------------------------------------------------------------------
(* server.js: the insight functions *)

\* predictNextMonth without Math.max(0, ...)
predictNextMonthUnclamped(monthlyTotals) ==
    IF Len(monthlyTotals) < 2 THEN 0
    ELSE monthlyTotals[1].total + (monthlyTotals[1].total - monthlyTotals[2].total)

\* function predictNextMonth(monthlyTotals)
predictNextMonth(monthlyTotals) ==
    IF Len(monthlyTotals) < 2 THEN 0
    ELSE LET recent == monthlyTotals[1].total
             previous == monthlyTotals[2].total
             trend == recent - previous
         IN IF recent + trend > 0 THEN recent + trend ELSE 0

RECURSIVE SumTotal(_)
SumTotal(groups) ==
    IF groups = <<>> THEN 0 ELSE groups[1].total + SumTotal(Tail(groups))

\* percentage >= 50 in place of percentage > 50
PercentageAtLeast50(highest, total) ==
    IF total = 0 THEN highest > 0
    ELSE IF total > 0 THEN highest * 100 >= 50 * total
    ELSE highest * 100 <= 50 * total

\* percentage = (highest.total / total) * 100;  percentage > 50
\* (0 / 0 is NaN and compares false, x / 0 is Infinity for x > 0)
PercentageOver50(highest, total) ==
    IF total = 0 THEN highest > 0
    ELSE IF total > 0 THEN highest * 100 > 50 * total
    ELSE highest * 100 < 50 * total

\* percentage.toFixed(1), in tenths of a percent
\* (computed by long division to stay within 32-bit integers)
PercentageFixed1(highest, total) ==
    IF total > 0 /\ highest >= 0
    THEN LET whole == (highest * 100) \div total
             rest == (highest * 100) % total
         IN whole * 10 + (20 * rest + total) \div (2 * total)
    ELSE 0

\* generateInsights, lines 31-42: the category recommendation
Recommendations(categoryTotals) ==
    IF Len(categoryTotals) > 0
    THEN LET total == SumTotal(categoryTotals)
             highest == categoryTotals[1]
         IN IF PercentageOver50(highest.total, total)
            THEN <<[category |-> highest.category,
                    percentage |-> PercentageFixed1(highest.total, total)]>>
            ELSE <<>>
    ELSE <<>>

\* exp.amount >= threshold in place of exp.amount > threshold
AtOrAboveThreshold(amount, sum, length) == amount * length >= sum * 2

\* exp.amount > threshold, where avg = sum / length and threshold = avg * 2
AboveThreshold(amount, sum, length) == amount * length > sum * 2

\* generateInsights, lines 44-56: the anomaly detection
Anomalies(expenses) ==
    IF Len(expenses) > 0
    THEN LET sum == SumAmount(expenses)
             anomalies == SelectSeq(expenses,
                              LAMBDA exp : AboveThreshold(exp.amount, sum, Len(expenses)))
         IN [i \in 1..Len(anomalies) |->
                [date |-> anomalies[i].date, amount |-> anomalies[i].amount,
                 description |-> anomalies[i].description]]
    ELSE <<>>

\* function generateInsights(expenses, categoryTotals, monthlyTotals)
generateInsights(expenses, categoryTotals, monthlyTotals) ==
    [predictions |-> [nextMonth |-> predictNextMonth(monthlyTotals)],
     recommendations |-> Recommendations(categoryTotals),
     anomalies |-> Anomalies(expenses)]

-----------------------------------------------------------------------------
(* server.js: the routes *)

BudgetLimit == 5000

\* Math.floor in place of Math.round
Round2Down(x) == (x \div 10) * 10

\* Math.round(x * 100) / 100 of an amount in thousandths
Round2(x) == ((x + 5) \div 10) * 10

\* if (!date || !category || !amount || amount <= 0) return res.status(400)
InvalidData(body) ==
    \/ ~Truthy(body.date)
    \/ ~Truthy(body.category)
    \/ ~Truthy(body.amount)
    \/ LessEqZero(body.amount)

\* { date, category, amount: parseFloat(amount), description: description || '' }
ExpenseOf(body) ==
    [date |-> body.date, category |-> body.category,
     amount |-> parseFloat(body.amount),
     description |-> IF Truthy(body.description) THEN body.description ELSE Str(<<>>)]

\* the body of the /report response, lines 100-109
ReportBody(expenses, categoryTotals, monthlyTotals) ==
    LET totalSpending == SumAmount(expenses)
    IN [expenses |-> expenses,
        categoryTotals |-> categoryTotals,
        monthlyTotals |-> monthlyTotals,
        totalSpending |-> Round2(totalSpending),
        isOverBudget |-> totalSpending > Units(BudgetLimit),
        budgetLimit |-> Units(BudgetLimit)]

\* a catch block that also passes on what the expenses read returned
CatchBodyPartial(req) ==
    [error |-> "Failed", expenses |-> req.rd["expenses"].rows]

\* the catch blocks: res.status(500).json({ error })
CatchBody(req) ==
    [error |-> CASE req.kind = "add-expense" -> "Failed to add expense"
                 [] req.kind = "expenses" -> "Failed to fetch expenses"
                 [] req.kind = "report" -> "Failed to generate report"
                 [] req.kind = "ai-insights" -> "Failed to generate insights"]

-----------------------------------------------------------------------------
(* The requests *)

\* c1 is a client that posts expenses, c2 a client that reads
Clients == {"c1", "c2"}

RoutesOf(c) == IF c = "c1" THEN {"add-expense"} ELSE {"expenses", "report", "ai-insights"}

\* the three reads of Promise.all in /report and /ai-insights
ReadNames == {"expenses", "categoryTotals", "monthlyTotals"}

\* an ISO date text YYYY-MM-DD as the browser's date input sends it
DateText(y, m, d) ==
    toString(y) \o <<"-">> \o padStart2(toString(m)) \o <<"-">> \o padStart2(toString(d))

NoBody == [date |-> Undefined, category |-> Undefined, amount |-> Undefined,
           description |-> Undefined]

\* request bodies that pass as they are sent by the form
FormBodies ==
    { [date |-> Str(DateText(2024, 12, 15)), category |-> Str(<<"a">>),
       amount |-> Num(2500000), description |-> Str(<<"c">>)],
      [date |-> Str(DateText(2024, 12, 20)), category |-> Str(<<"b">>),
       amount |-> Num(2500004), description |-> Undefined],
      [date |-> Str(DateText(2025, 1, 10)), category |-> Str(<<"a">>),
       amount |-> Str(<<"0", ".", "0", "0", "5">>), description |-> Undefined] }

\* request bodies with a field missing or a bad amount
BadBodies ==
    LET good == [date |-> Str(DateText(2024, 12, 15)), category |-> Str(<<"a">>),
                 amount |-> Num(2500000), description |-> Undefined]
    IN { [good EXCEPT !.date = Undefined],
         [good EXCEPT !.date = Str(<<>>)],
         [good EXCEPT !.category = Undefined],
         [good EXCEPT !.amount = Undefined],
         [good EXCEPT !.amount = Num(0)],
         [good EXCEPT !.amount = Num(0 - 1000)],
         [good EXCEPT !.amount = Str(<<"-", "3">>)],
         [good EXCEPT !.amount = Str(<<>>)],
         [good EXCEPT !.amount = Str(<<"a", "b", "c">>)] }

Bodies == FormBodies \cup BadBodies

NotRead == [st |-> "none", rows |-> <<>>, at |-> 0]
PendingRead == [st |-> "pending", rows |-> <<>>, at |-> 0]

Idle == [kind |-> "idle", body |-> NoBody, year |-> 0, month |-> 0,
         rd |-> [k \in ReadNames |-> NotRead], calls |-> 0]

NoResponse == [status |-> 0, client |-> "", body |-> [error |-> ""], req |-> Idle]

\* the month after t
NextMonth(t) ==
    IF t.month = 12 THEN [year |-> t.year + 1, month |-> 1]
    ELSE [year |-> t.year, month |-> t.month + 1]

\* month changes since the start of the model
Ticks(t) == (t.year - 2024) * 12 + t.month - 12

-----------------------------------------------------------------------------
(* Initial state: an empty table, no request in flight *)

NoArgs == [fn |-> "none", expenses |-> <<>>, categoryTotals |-> <<>>, monthlyTotals |-> <<>>]
NoResult == [fn |-> "none", value |-> 0, insights |-> generateInsights(<<>>, <<>>, <<>>)]

\* no store query has been called directly
NoQuery == [op |-> "none", year |-> 0, month |-> 0, rows |-> <<>>]

\* new CloudSyncService() with no CLOUD_SYNC_* variable in the environment
CloudOff ==
    [enabled |-> FALSE, provider |-> "firebase", configured |-> FALSE,
     isOnline |-> TRUE, lastSyncTime |-> 0, timer |-> FALSE,
     calls |-> 0, contacts |-> 0, pending |-> "none",
     result |-> [fn |-> "none", success |-> FALSE, result |-> "none"]]

\* no store operation has been called yet
NoOperation ==
    [op |-> "none", type |-> "", db |-> "", open |-> FALSE, table |-> FALSE,
     pc |-> "", outcome |-> ""]

\* the DatabaseManager once initializeDatabase has finished on SQLite
DbmReady ==
    [type |-> "sqlite", db |-> "sqlite", open |-> TRUE, table |-> TRUE,
     pc |-> "done", fallback |-> FALSE, seeded |-> 0, added |-> 0,
     operation |-> NoOperation, configured |-> "sqlite", log |-> {}, counted |-> 0]

Init ==
    /\ store = <<>>
    /\ lastID = 0
    /\ clock = [year |-> 2024, month |-> 12]
    /\ reqs = [c \in Clients |-> Idle]
    /\ response = NoResponse
    /\ fnArgs = NoArgs
    /\ fnResult = NoResult
    /\ query = NoQuery
    /\ cloud = CloudOff
    /\ dbm = DbmReady

-----------------------------------------------------------------------------
(* Actions *)

\* catch blocks that log the error and send nothing
RespondUnlessError(c, s, b, req) ==
    IF s = 500 THEN NoResponse ELSE [status |-> s, client |-> c, body |-> b, req |-> req]

\* res.status(s).json(b): the response leaves within the handler's turn
Respond(c, s, b, req) == [status |-> s, client |-> c, body |-> b, req |-> req]

\* the wall clock passes into the next month
Tick ==
    /\ response.status = 0
    /\ Ticks(clock) < MaxTicks
    /\ clock' = NextMonth(clock)
    /\ UNCHANGED <<store, lastID, reqs, response, fnArgs, fnResult, query, cloud, dbm>>

\* the event-loop turn that sent a response ends
EndTurn ==
    /\ response.status # 0
    /\ response' = NoResponse
    /\ UNCHANGED <<store, lastID, clock, reqs, fnArgs, fnResult, query, cloud, dbm>>

\* app.post('/add-expense'), lines 63-68: the body fails the validation
PostAddExpenseInvalid(c) ==
    /\ response.status = 0
    /\ "add-expense" \in RoutesOf(c)
    /\ reqs[c].kind = "idle"
    /\ \E body \in Bodies :
          /\ InvalidData(body)
          /\ response' = Respond(c, 400, [error |-> "Invalid data"],
                                 [Idle EXCEPT !.kind = "add-expense", !.body = body])
    /\ UNCHANGED <<store, lastID, clock, reqs, fnArgs, fnResult, query, cloud, dbm>>

\* app.post('/add-expense'), lines 63-72: the body passes and addExpense is called
PostAddExpense(c) ==
    /\ response.status = 0
    /\ "add-expense" \in RoutesOf(c)
    /\ reqs[c].kind = "idle"
    /\ Len(store) < MaxStore
    /\ \E body \in Bodies :
          /\ ~InvalidData(body)
          /\ reqs' = [reqs EXCEPT ![c] =
                        [Idle EXCEPT !.kind = "add-expense", !.body = body, !.calls = 1]]
    /\ UNCHANGED <<store, lastID, clock, response, fnArgs, fnResult, query, cloud, dbm>>

\* the columns are NOT NULL; a NaN is bound as NULL
InsertAccepted(expense) ==
    /\ expense.date.t = "string"
    /\ expense.category.t = "string"
    /\ expense.amount.t = "number"

\* addExpense resolves, lines 70-74: the row is stored and the 201 response sent
AddExpenseResolved(c) ==
    /\ response.status = 0
    /\ reqs[c].kind = "add-expense"
    /\ LET expense == ExpenseOf(reqs[c].body)
           id == lastID + 1
       IN /\ InsertAccepted(expense)
          /\ store' = Append(store, InsertedRow(id, expense))
          /\ lastID' = id
          /\ response' = Respond(c, 201,
                                 [message |-> "Expense added",
                                  expense |-> addExpenseResult(id, expense)],
                                 reqs[c])
    /\ reqs' = [reqs EXCEPT ![c] = Idle]
    /\ UNCHANGED <<clock, fnArgs, fnResult, query, cloud, dbm>>

\* addExpense rejects (constraint or connection error), lines 75-77
AddExpenseRejected(c) ==
    /\ response.status = 0
    /\ reqs[c].kind = "add-expense"
    /\ response' = Respond(c, 500, CatchBody(reqs[c]), reqs[c])
    /\ reqs' = [reqs EXCEPT ![c] = Idle]
    /\ UNCHANGED <<store, lastID, clock, fnArgs, fnResult, query, cloud, dbm>>

\* app.get('/expenses'), line 82: getAllExpenses is called
GetExpenses(c) ==
    /\ response.status = 0
    /\ "expenses" \in RoutesOf(c)
    /\ reqs[c].kind = "idle"
    /\ reqs' = [reqs EXCEPT ![c] = [Idle EXCEPT !.kind = "expenses", !.calls = 1]]
    /\ UNCHANGED <<store, lastID, clock, response, fnArgs, fnResult, query, cloud, dbm>>

\* getAllExpenses resolves, line 83
GetExpensesResolved(c) ==
    /\ response.status = 0
    /\ reqs[c].kind = "expenses"
    /\ response' = Respond(c, 200, [expenses |-> getAllExpenses(store)], reqs[c])
    /\ reqs' = [reqs EXCEPT ![c] = Idle]
    /\ UNCHANGED <<store, lastID, clock, fnArgs, fnResult, query, cloud, dbm>>

\* getAllExpenses rejects, lines 84-86
GetExpensesRejected(c) ==
    /\ response.status = 0
    /\ reqs[c].kind = "expenses"
    /\ response' = Respond(c, 500, CatchBody(reqs[c]), reqs[c])
    /\ reqs' = [reqs EXCEPT ![c] = Idle]
    /\ UNCHANGED <<store, lastID, clock, fnArgs, fnResult, query, cloud, dbm>>

\* app.get('/report') and app.get('/ai-insights'), lines 91-98 and 117-124:
\* the year and the month come from two readings of the clock, then the three
\* reads are started together
GetReport(c, kind) ==
    /\ response.status = 0
    /\ kind \in RoutesOf(c) \cap {"report", "ai-insights"}
    /\ reqs[c].kind = "idle"
    /\ \E tick \in BOOLEAN :
          /\ tick => Ticks(clock) < MaxTicks
          /\ clock' = IF tick THEN NextMonth(clock) ELSE clock
          /\ reqs' = [reqs EXCEPT ![c] =
                        [Idle EXCEPT !.kind = kind,
                                     !.year = clock.year,
                                     !.month = clock'.month,
                                     !.rd = [k \in ReadNames |-> PendingRead],
                                     !.calls = 3]]
    /\ UNCHANGED <<store, lastID, response, fnArgs, fnResult, query, cloud, dbm>>

\* reads served from a copy of the table that misses the newest row
ReadRowsStale(k, year, month) ==
    LET old == SubSeq(store, 1, Len(store) - 1)
    IN CASE k = "expenses" -> getExpensesByMonth(old, year, month)
         [] k = "categoryTotals" -> getCategoryTotals(old, year, month)
         [] k = "monthlyTotals" -> getMonthlyTotals(old)

\* the rows one of the three reads returns from the table as it is now
ReadRows(k, year, month) ==
    CASE k = "expenses" -> getExpensesByMonth(store, year, month)
      [] k = "categoryTotals" -> getCategoryTotals(store, year, month)
      [] k = "monthlyTotals" -> getMonthlyTotals(store)

\* the response sent once Promise.all has resolved, lines 100-109 and 126-128
ResolvedBody(req) ==
    IF req.kind = "report"
    THEN ReportBody(req.rd["expenses"].rows, req.rd["categoryTotals"].rows,
                    req.rd["monthlyTotals"].rows)
    ELSE [insights |-> generateInsights(req.rd["expenses"].rows,
                                        req.rd["categoryTotals"].rows,
                                        req.rd["monthlyTotals"].rows)]

\* a generateInsights that takes the highest category off the front of
\* categoryTotals (Array.prototype.shift)
ArgumentsAfterShift(expenses, categoryTotals, monthlyTotals) ==
    <<expenses,
      IF categoryTotals = <<>> THEN <<>> ELSE Tail(categoryTotals),
      monthlyTotals>>

\* the three arrays as generateInsights and predictNextMonth leave them: they
\* are read by index and through reduce, map and filter, which build new
\* arrays; push is applied to insights.recommendations only (server.js 14-59)
ArgumentsAfterInsights(expenses, categoryTotals, monthlyTotals) ==
    <<expenses, categoryTotals, monthlyTotals>>

\* the request as the handler holds it when it responds: for /ai-insights the
\* arrays have been through generateInsights
Handled(req) ==
    IF req.kind = "ai-insights"
    THEN LET after == ArgumentsAfterInsights(req.rd["expenses"].rows,
                                             req.rd["categoryTotals"].rows,
                                             req.rd["monthlyTotals"].rows)
         IN [req EXCEPT !.rd["expenses"].rows = after[1],
                        !.rd["categoryTotals"].rows = after[2],
                        !.rd["monthlyTotals"].rows = after[3]]
    ELSE req

\* one of the three reads resolves; the last one resolves Promise.all
ReadResolved(c, k) ==
    /\ response.status = 0
    /\ reqs[c].kind \in {"report", "ai-insights"}
    /\ reqs[c].rd[k].st = "pending"
    /\ LET req == [reqs[c] EXCEPT !.rd[k] =
                      [st |-> "ok", rows |-> ReadRows(k, reqs[c].year, reqs[c].month),
                       at |-> lastID]]
       IN IF \A j \in ReadNames : req.rd[j].st = "ok"
          THEN /\ response' = Respond(c, 200, ResolvedBody(req), Handled(req))
               /\ reqs' = [reqs EXCEPT ![c] = Idle]
          ELSE /\ reqs' = [reqs EXCEPT ![c] = req]
               /\ UNCHANGED response
    /\ UNCHANGED <<store, lastID, clock, fnArgs, fnResult, query, cloud, dbm>>

\* what a rejected read leaves of the request: Promise.all rejects at once and
\* the other reads are not awaited any more
ReadFailure(req, k) == [req EXCEPT !.rd[k] = [st |-> "failed", rows |-> <<>>, at |-> 0]]

\* one of the three reads rejects, lines 110-112 and 129-131
ReadRejected(c, k) ==
    /\ response.status = 0
    /\ reqs[c].kind \in {"report", "ai-insights"}
    /\ reqs[c].rd[k].st = "pending"
    /\ LET req == ReadFailure(reqs[c], k)
       IN response' = Respond(c, 500, CatchBody(req), req)
    /\ reqs' = [reqs EXCEPT ![c] = Idle]
    /\ UNCHANGED <<store, lastID, clock, fnArgs, fnResult, query, cloud, dbm>>

Next ==
    \/ Tick
    \/ EndTurn
    \/ \E c \in Clients : PostAddExpenseInvalid(c)
    \/ \E c \in Clients : PostAddExpense(c)
    \/ \E c \in Clients : AddExpenseResolved(c)
    \/ \E c \in Clients : AddExpenseRejected(c)
    \/ \E c \in Clients : GetExpenses(c)
    \/ \E c \in Clients : GetExpensesResolved(c)
    \/ \E c \in Clients : GetExpensesRejected(c)
    \/ \E c \in Clients, kind \in {"report", "ai-insights"} : GetReport(c, kind)
    \/ \E c \in Clients, k \in ReadNames : ReadResolved(c, k)
    \/ \E c \in Clients, k \in ReadNames : ReadRejected(c, k)

Spec == Init /\ [][Next]_vars

TypeOK ==
    /\ lastID = Len(store)
    /\ response.status \in {0, 200, 201, 400, 500}

-----------------------------------------------------------------------------
(* Direct calls of the insight functions on bounded arguments *)

\* the sequences over S of length at most n
SeqsUpTo(S, n) == UNION {[1..k -> S] : k \in 0..n}

\* monthly totals as getMonthlyTotals shapes them, most recent month first
MonthlyOf(nums) ==
    [i \in 1..Len(nums) |-> [month |-> yearMonthOf(2024, 13 - i), total |-> nums[i]]]

\* category totals with the categories a, aa, aaa, ...
CategoryOf(nums) ==
    [i \in 1..Len(nums) |-> [category |-> [j \in 1..i |-> "a"], total |-> nums[i]]]

\* expense rows with the given amounts
ExpensesOf(nums) ==
    [i \in 1..Len(nums) |->
        [id |-> i, date |-> DateText(2024, 12, i), category |-> <<"a">>,
         amount |-> nums[i], description |-> <<"c">>]]

TotalSeqs == SeqsUpTo(0..MaxTotal, MaxLen)
AmountSeqs == SeqsUpTo(1..MaxTotal, MaxLen)
FewSeqs == {<<>>, <<2, 1>>}

\* the argument triples of generateInsights: one argument ranges over all the
\* bounded sequences while the other two range over FewSeqs
InsightArgs ==
    (AmountSeqs \X FewSeqs \X FewSeqs)
        \cup (FewSeqs \X TotalSeqs \X FewSeqs)
        \cup (FewSeqs \X FewSeqs \X TotalSeqs)

CallPredictNextMonth ==
    /\ fnArgs.fn = "none"
    /\ \E nums \in TotalSeqs :
          /\ fnArgs' = [NoArgs EXCEPT !.fn = "predictNextMonth",
                                      !.monthlyTotals = MonthlyOf(nums)]
          /\ fnResult' = [NoResult EXCEPT !.fn = "predictNextMonth",
                                          !.value = predictNextMonth(MonthlyOf(nums))]
    /\ UNCHANGED <<store, lastID, clock, reqs, response, query, cloud, dbm>>

CallGenerateInsights ==
    /\ fnArgs.fn = "none"
    /\ \E args \in InsightArgs :
          LET expenses == ExpensesOf(args[1])
              categoryTotals == CategoryOf(args[2])
              monthlyTotals == MonthlyOf(args[3])
          IN /\ fnArgs' = [fn |-> "generateInsights", expenses |-> expenses,
                           categoryTotals |-> categoryTotals,
                           monthlyTotals |-> monthlyTotals]
             /\ fnResult' = [NoResult EXCEPT
                               !.fn = "generateInsights",
                               !.insights = generateInsights(expenses, categoryTotals,
                                                             monthlyTotals)]
    /\ UNCHANGED <<store, lastID, clock, reqs, response, query, cloud, dbm>>

\* the caller drops the arguments and the result
Return ==
    /\ fnArgs.fn # "none"
    /\ fnArgs' = NoArgs
    /\ fnResult' = NoResult
    /\ UNCHANGED <<store, lastID, clock, reqs, response, query, cloud, dbm>>

NextFn == CallPredictNextMonth \/ CallGenerateInsights \/ Return

SpecFn == Init /\ [][NextFn]_vars

-----------------------------------------------------------------------------
(* Direct calls of the store queries on bounded tables *)

MaxRows == 3        \* rows of the tables built from RowChoices
MaxMonths == 7      \* year-months of the tables built by TableOfMonths

\* the k-th year-month from 2024-08 on
MonthAt(k) == [year |-> 2024 + (k + 6) \div 12, month |-> ((k + 6) % 12) + 1]

\* the numbers of S in ascending order
Ascending(S) == SelectSeq([k \in 1..MaxMonths |-> k], LAMBDA k : k \in S)

\* the numbers of S in descending order
Descending(S) == SelectSeq([k \in 1..MaxMonths |-> MaxMonths + 1 - k], LAMBDA k : k \in S)

\* a table with one row of 1.00 for each month of S1, stored oldest month
\* first, followed by one row of 2.00 for each month of S2, newest month first
TableOfMonths(S1, S2) ==
    LET ks == Ascending(S1) \o Descending(S2)
    IN [i \in 1..Len(ks) |->
          [id |-> i,
           date |-> DateText(MonthAt(ks[i]).year, MonthAt(ks[i]).month,
                             IF i <= Cardinality(S1) THEN 10 ELSE 20),
           category |-> IF i <= Cardinality(S1) THEN <<"a">> ELSE <<"b">>,
           amount |-> IF i <= Cardinality(S1) THEN Units(1) ELSE Units(2),
           description |-> <<>>]]

\* the rows a short table is made of: two years, two months, three categories
RowChoices ==
    { [date |-> DateText(2024, 12, 15), category |-> <<"a">>, amount |-> Units(2)],
      [date |-> DateText(2024, 12, 20), category |-> <<"b">>, amount |-> Units(1)],
      [date |-> DateText(2024, 12, 20), category |-> <<"c">>, amount |-> Units(2)],
      [date |-> DateText(2024, 12, 10), category |-> <<"b">>, amount |-> Units(1)],
      [date |-> DateText(2025, 1, 10), category |-> <<"a">>, amount |-> Units(1)],
      [date |-> DateText(2025, 12, 5), category |-> <<"c">>, amount |-> Units(1)] }

\* the table that holds the given rows, inserted in this order
TableOf(rows) ==
    [i \in 1..Len(rows) |->
        [id |-> i, date |-> rows[i].date, category |-> rows[i].category,
         amount |-> rows[i].amount, description |-> <<>>]]

Tables ==
    {TableOf(rows) : rows \in SeqsUpTo(RowChoices, MaxRows)}
        \cup {TableOfMonths(S1, S2) :
                 S1 \in SUBSET (1..MaxMonths),
                 S2 \in {S \in SUBSET (1..MaxMonths) : Cardinality(S) <= 2}}

\* the (year, month) pairs the queries are called with
QueryMonths == {2024, 2025} \X {1, 12}

InitQuery ==
    /\ store \in Tables
    /\ lastID = Len(store)
    /\ clock = [year |-> 2024, month |-> 12]
    /\ reqs = [c \in Clients |-> Idle]
    /\ response = NoResponse
    /\ fnArgs = NoArgs
    /\ fnResult = NoResult
    /\ query = NoQuery
    /\ cloud = CloudOff
    /\ dbm = DbmReady

CallGetAllExpenses ==
    /\ query.op = "none"
    /\ query' = [NoQuery EXCEPT !.op = "getAllExpenses", !.rows = getAllExpenses(store)]
    /\ UNCHANGED <<store, lastID, clock, reqs, response, fnArgs, fnResult, cloud, dbm>>

CallGetExpensesByMonth ==
    /\ query.op = "none"
    /\ \E ym \in QueryMonths :
          query' = [op |-> "getExpensesByMonth", year |-> ym[1], month |-> ym[2],
                    rows |-> getExpensesByMonth(store, ym[1], ym[2])]
    /\ UNCHANGED <<store, lastID, clock, reqs, response, fnArgs, fnResult, cloud, dbm>>

CallGetCategoryTotals ==
    /\ query.op = "none"
    /\ \E ym \in QueryMonths :
          query' = [op |-> "getCategoryTotals", year |-> ym[1], month |-> ym[2],
                    rows |-> getCategoryTotals(store, ym[1], ym[2])]
    /\ UNCHANGED <<store, lastID, clock, reqs, response, fnArgs, fnResult, cloud, dbm>>

CallGetMonthlyTotals ==
    /\ query.op = "none"
    /\ query' = [NoQuery EXCEPT !.op = "getMonthlyTotals", !.rows = getMonthlyTotals(store)]
    /\ UNCHANGED <<store, lastID, clock, reqs, response, fnArgs, fnResult, cloud, dbm>>

\* the caller drops the rows
QueryReturn ==
    /\ query.op # "none"
    /\ query' = NoQuery
    /\ UNCHANGED <<store, lastID, clock, reqs, response, fnArgs, fnResult, cloud, dbm>>

NextQuery ==
    \/ CallGetAllExpenses
    \/ CallGetExpensesByMonth
    \/ CallGetCategoryTotals
    \/ CallGetMonthlyTotals
    \/ QueryReturn

SpecQuery == InitQuery /\ [][NextQuery]_vars

-----------------------------------------------------------------------------
(* CloudSyncService *)

MaxCalls == 3       \* calls of the service's methods in the model

Providers == {"firebase", "aws", "google", "dropbox"}

\* new CloudSyncService(): enabledEnv is CLOUD_SYNC_ENABLED === 'true',
\* configured tells whether the provider's configuration variables are set;
\* initializeProvider disables the service for an unknown provider or an
\* incomplete configuration, startPeriodicSync then sets no timer
Constructed(enabledEnv, provider, configured) ==
    LET enabled == enabledEnv /\ provider \in {"firebase", "aws", "google"} /\ configured
    IN [CloudOff EXCEPT !.enabled = enabled, !.provider = provider,
                        !.configured = configured, !.timer = enabled]

InitCloud ==
    /\ store = <<>>
    /\ lastID = 0
    /\ clock = [year |-> 2024, month |-> 12]
    /\ reqs = [c \in Clients |-> Idle]
    /\ response = NoResponse
    /\ fnArgs = NoArgs
    /\ fnResult = NoResult
    /\ query = NoQuery
    /\ cloud \in {Constructed(e, p, g) : e \in BOOLEAN, p \in Providers, g \in BOOLEAN}
    /\ dbm = DbmReady

\* the guard without the test of enabled
InertOffline(c) == ~c.isOnline

\* if (!this.enabled || !this.isOnline)
Inert(c) == ~c.enabled \/ ~c.isOnline

\* a method has returned { success }; result is the nested result object
\* that only testConnection returns
Returned(c, fn, success) ==
    [c EXCEPT !.pending = "none",
              !.result = [fn |-> fn, success |-> success, result |-> "none"]]

\* syncToCloud up to its first await of the provider, called on behalf of fn:
\* it returns a failure at once, or completes at once (the simulated Google
\* upload, the throw for an unsupported provider), or sends a request
SyncToCloudStarted(c, fn) ==
    IF Inert(c) THEN Returned(c, fn, FALSE)
    ELSE IF c.provider = "google"
         THEN Returned([c EXCEPT !.lastSyncTime = c.calls], fn, TRUE)
    ELSE IF c.provider \in {"firebase", "aws"}
         THEN [c EXCEPT !.contacts = c.contacts + 1, !.pending = fn]
    ELSE Returned([c EXCEPT !.isOnline = FALSE], fn, FALSE)

\* syncToCloud after the provider's answer
SyncToCloudFinished(c, fn, ok) ==
    IF ok THEN Returned([c EXCEPT !.lastSyncTime = c.calls], fn, TRUE)
    ELSE Returned([c EXCEPT !.isOnline = FALSE], fn, FALSE)

\* testConnection once its syncToCloud has returned: whatever the result was
\* the service is marked online and { success: true, result } is returned,
\* result being what syncToCloud returned
TestConnectionFinished(c) ==
    IF c.pending # "none" THEN c
    ELSE [c EXCEPT !.isOnline = TRUE,
                   !.result = [fn |-> "testConnection", success |-> TRUE,
                               result |-> IF c.result.success THEN "success"
                                          ELSE "failure"]]

\* syncToCloud(data, operation), syncExpense(expense), syncAllExpenses(expenses)
CallSyncToCloud(fn) ==
    /\ cloud.pending = "none"
    /\ cloud.calls < MaxCalls
    /\ cloud' = SyncToCloudStarted([cloud EXCEPT !.calls = cloud.calls + 1], fn)
    /\ UNCHANGED <<store, lastID, clock, reqs, response, fnArgs, fnResult, query, dbm>>

\* syncFromCloud()
CallSyncFromCloud ==
    /\ cloud.pending = "none"
    /\ cloud.calls < MaxCalls
    /\ LET c == [cloud EXCEPT !.calls = cloud.calls + 1]
       IN cloud' =
            IF Inert(c) THEN Returned(c, "syncFromCloud", FALSE)
            ELSE IF c.provider = "google" THEN Returned(c, "syncFromCloud", TRUE)
            ELSE IF c.provider \in {"firebase", "aws"}
                 THEN [c EXCEPT !.contacts = c.contacts + 1, !.pending = "syncFromCloud"]
            ELSE Returned(c, "syncFromCloud", FALSE)
    /\ UNCHANGED <<store, lastID, clock, reqs, response, fnArgs, fnResult, query, dbm>>

\* testConnection()
CallTestConnection ==
    /\ cloud.pending = "none"
    /\ cloud.calls < MaxCalls
    /\ LET c == [cloud EXCEPT !.calls = cloud.calls + 1]
       IN cloud' =
            IF ~c.enabled THEN Returned(c, "testConnection", FALSE)
            ELSE TestConnectionFinished(SyncToCloudStarted(c, "testConnection"))
    /\ UNCHANGED <<store, lastID, clock, reqs, response, fnArgs, fnResult, query, dbm>>

\* the provider answers the request of the pending call, or the request fails
ProviderAnswers(ok) ==
    /\ cloud.pending # "none"
    /\ cloud' =
         CASE cloud.pending = "syncFromCloud" -> Returned(cloud, "syncFromCloud", ok)
           [] cloud.pending = "testConnection" ->
                TestConnectionFinished(SyncToCloudFinished(cloud, "testConnection", ok))
           [] OTHER -> SyncToCloudFinished(cloud, cloud.pending, ok)
    /\ UNCHANGED <<store, lastID, clock, reqs, response, fnArgs, fnResult, query, dbm>>

\* the timer callback without the branch that reconnects
PeriodicSyncOnlineOnly ==
    /\ cloud.timer
    /\ ~cloud.isOnline
    /\ UNCHANGED vars

\* the setInterval callback of startPeriodicSync: syncPendingChanges only
\* logs, an offline service is marked online again
PeriodicSync ==
    /\ cloud.timer
    /\ ~cloud.isOnline
    /\ cloud' = [cloud EXCEPT !.isOnline = TRUE]
    /\ UNCHANGED <<store, lastID, clock, reqs, response, fnArgs, fnResult, query, dbm>>

NextCloud ==
    \/ \E fn \in {"syncToCloud", "syncExpense", "syncAllExpenses"} : CallSyncToCloud(fn)
    \/ CallSyncFromCloud
    \/ CallTestConnection
    \/ \E ok \in BOOLEAN : ProviderAnswers(ok)
    \/ PeriodicSync

SpecCloud == InitCloud /\ [][NextCloud]_vars

\* the timer of setInterval keeps firing while the process runs
SpecCloudFair == SpecCloud /\ WF_vars(PeriodicSync)

-----------------------------------------------------------------------------
(* DatabaseManager: the start-up begun by the constructor *)

\* values of DB_TYPE; "oracle" stands for any unsupported value
ConfiguredTypes == {"sqlite", "mysql", "postgresql", "oracle"}

\* const sampleExpenses
sampleExpenses ==
    <<
       [date |-> Str(DateText(2024, 1, 15)), category |-> Str(<<"F", "o", "o", "d">>),
        amount |-> Num(Units(1200)),
        description |-> Str(<<"G", "r", "o", "c", "e", "r", "y", " ", "s", "h", "o", "p", "p", "i", "n", "g">>)],
       [date |-> Str(DateText(2024, 1, 16)), category |-> Str(<<"T", "r", "a", "v", "e", "l">>),
        amount |-> Num(Units(800)),
        description |-> Str(<<"U", "b", "e", "r", " ", "r", "i", "d", "e", "s">>)],
       [date |-> Str(DateText(2024, 1, 17)), category |-> Str(<<"S", "h", "o", "p", "p", "i", "n", "g">>),
        amount |-> Num(Units(2500)),
        description |-> Str(<<"N", "e", "w", " ", "c", "l", "o", "t", "h", "e", "s">>)],
       [date |-> Str(DateText(2024, 1, 18)), category |-> Str(<<"F", "o", "o", "d">>),
        amount |-> Num(Units(600)),
        description |-> Str(<<"R", "e", "s", "t", "a", "u", "r", "a", "n", "t", " ", "d", "i", "n", "n", "e", "r">>)],
       [date |-> Str(DateText(2024, 1, 19)), category |-> Str(<<"O", "t", "h", "e", "r">>),
        amount |-> Num(Units(300)),
        description |-> Str(<<"M", "o", "v", "i", "e", " ", "t", "i", "c", "k", "e", "t", "s">>)]
    >>

\* the manager when the constructor returns: initializeDatabase has run up to
\* its first await.  this.db is assigned at once by initializeSQLite and
\* initializePostgreSQL and only after the await by initializeMySQL; an
\* unsupported type has already thrown into the fallback.  hasTable tells
\* whether the database that will be connected holds table expenses already.
\* log holds what console.error and the fallback have reported, counted the
\* number of rows the table held when the COUNT query of insertSampleData
\* settled
Constructing(type, hasTable) ==
    LET new == [DbmReady EXCEPT !.type = type, !.db = "null", !.open = FALSE,
                                !.table = hasTable, !.pc = "new",
                                !.configured = type]
    IN CASE type = "sqlite" -> [new EXCEPT !.db = "sqlite", !.pc = "opening"]
         [] type = "mysql" -> [new EXCEPT !.pc = "connecting"]
         [] type = "postgresql" ->
                [new EXCEPT !.db = "postgresql", !.open = TRUE, !.pc = "creating"]
         [] OTHER -> [new EXCEPT !.type = "sqlite", !.db = "sqlite", !.fallback = TRUE,
                                 !.pc = "opening",
                                 !.log = {"Database initialization failed",
                                          "Falling back to SQLite"}]

\* rows left in the table by an earlier run of the server
EarlierRows == {<<>>, TableOf(<<[date |-> DateText(2024, 12, 15), category |-> <<"a">>,
                                 amount |-> Units(2)]>>)}

InitStart ==
    /\ \E type \in ConfiguredTypes, hasTable \in BOOLEAN :
          /\ dbm = Constructing(type, hasTable)
          /\ store \in IF hasTable THEN EarlierRows ELSE {<<>>}
    /\ lastID = Len(store)
    /\ clock = [year |-> 2024, month |-> 12]
    /\ reqs = [c \in Clients |-> Idle]
    /\ response = NoResponse
    /\ fnArgs = NoArgs
    /\ fnResult = NoResult
    /\ query = NoQuery
    /\ cloud = CloudOff

\* createTables is entered: the CREATE TABLE statement is issued
CreateTablesCalled(d) == [d EXCEPT !.pc = "creating"]

\* initializeSQLite resolves: the database file is open
OpenResolved ==
    /\ dbm.pc = "opening"
    /\ dbm' = CreateTablesCalled([dbm EXCEPT !.open = TRUE])
    /\ UNCHANGED <<store, lastID, clock, reqs, response, fnArgs, fnResult, query, cloud>>

\* initializeSQLite rejects: the configured SQLite has no fallback and
\* initializeDatabase returns; in the fallback the rejection leaves the catch
\* block and initializeDatabase rejects
OpenRejected ==
    /\ dbm.pc = "opening"
    /\ dbm' = IF dbm.fallback THEN [dbm EXCEPT !.pc = "failed"]
              ELSE [dbm EXCEPT !.pc = "done",
                               !.log = dbm.log \cup {"Database initialization failed"}]
    /\ UNCHANGED <<store, lastID, clock, reqs, response, fnArgs, fnResult, query, cloud>>

\* mysql.createConnection resolves and this.db is assigned
ConnectResolved ==
    /\ dbm.pc = "connecting"
    /\ dbm' = CreateTablesCalled([dbm EXCEPT !.db = "mysql", !.open = TRUE])
    /\ UNCHANGED <<store, lastID, clock, reqs, response, fnArgs, fnResult, query, cloud>>

\* mysql.createConnection rejects: the catch block falls back to SQLite
ConnectRejected ==
    /\ dbm.pc = "connecting"
    /\ dbm' = [dbm EXCEPT !.type = "sqlite", !.db = "sqlite", !.fallback = TRUE,
                          !.pc = "opening",
                          !.log = dbm.log \cup {"Database initialization failed",
                                                "Falling back to SQLite"}]
    /\ UNCHANGED <<store, lastID, clock, reqs, response, fnArgs, fnResult, query, cloud>>

\* CREATE TABLE IF NOT EXISTS succeeds; insertSampleData asks for the count
CreateResolved ==
    /\ dbm.pc = "creating"
    /\ dbm' = [dbm EXCEPT !.table = TRUE, !.pc = "counting"]
    /\ UNCHANGED <<store, lastID, clock, reqs, response, fnArgs, fnResult, query, cloud>>

\* CREATE TABLE fails: createTables logs the error and returns
CreateRejected ==
    /\ dbm.pc = "creating"
    /\ dbm' = [dbm EXCEPT !.pc = "done", !.log = dbm.log \cup {"Error creating tables"}]
    /\ UNCHANGED <<store, lastID, clock, reqs, response, fnArgs, fnResult, query, cloud>>

\* getExpenseCount resolves: the samples are inserted if the count is 0
CountResolved ==
    /\ dbm.pc = "counting"
    /\ dbm' = [dbm EXCEPT !.pc = IF Len(store) = 0 THEN "inserting" ELSE "done",
                          !.counted = Len(store)]
    /\ UNCHANGED <<store, lastID, clock, reqs, response, fnArgs, fnResult, query, cloud>>

\* the COUNT query fails: the SQLite promise rejects into the catch block of
\* insertSampleData, the other branches catch the error themselves and
\* return 0
CountRejected ==
    /\ dbm.pc = "counting"
    /\ dbm' = IF dbm.type = "sqlite"
              THEN [dbm EXCEPT !.pc = "done", !.counted = Len(store),
                               !.log = dbm.log \cup {"Error inserting sample data"}]
              ELSE [dbm EXCEPT !.pc = "inserting", !.counted = Len(store),
                               !.log = dbm.log \cup {"Error getting expense count"}]
    /\ UNCHANGED <<store, lastID, clock, reqs, response, fnArgs, fnResult, query, cloud>>

\* await this.addExpense(expense) resolves for the next sample
SampleInserted ==
    /\ dbm.pc = "inserting"
    /\ store' = Append(store, InsertedRow(lastID + 1, sampleExpenses[dbm.seeded + 1]))
    /\ lastID' = lastID + 1
    /\ dbm' = [dbm EXCEPT !.seeded = dbm.seeded + 1,
                          !.pc = IF dbm.seeded + 1 = Len(sampleExpenses)
                                 THEN "done" ELSE "inserting"]
    /\ UNCHANGED <<clock, reqs, response, fnArgs, fnResult, query, cloud>>

\* addExpense rejects for a sample: insertSampleData logs and returns
SampleRejected ==
    /\ dbm.pc = "inserting"
    /\ dbm' = [dbm EXCEPT !.pc = "done",
                          !.log = dbm.log \cup {"Error inserting sample data"}]
    /\ UNCHANGED <<store, lastID, clock, reqs, response, fnArgs, fnResult, query, cloud>>

\* the expense a request submits while the server starts
StartBody ==
    [date |-> Str(DateText(2024, 12, 20)), category |-> Str(<<"b">>),
     amount |-> Num(Units(1)), description |-> Undefined]

StoreOperations ==
    {"addExpense", "getAllExpenses", "getExpensesByMonth", "getCategoryTotals",
     "getMonthlyTotals"}

\* the operation as it is called: with the type and the connection the
\* manager has at that moment
OperationCalled(op, outcome) ==
    [op |-> op, type |-> dbm.type, db |-> dbm.db, open |-> dbm.open,
     table |-> dbm.table, pc |-> dbm.pc, outcome |-> outcome]

\* a route handler calls a store operation and the operation fails: this.db
\* is null, the connection is not open, the table is missing, or the
\* statement fails
OperationRejected(op) ==
    /\ dbm' = [dbm EXCEPT !.operation = OperationCalled(op, "rejected")]
    /\ UNCHANGED <<store, lastID, clock, reqs, response, fnArgs, fnResult, query, cloud>>

\* a route handler calls a store operation and the operation succeeds, which
\* takes an open connection and the table
OperationResolved(op) ==
    /\ dbm.db # "null"
    /\ dbm.open
    /\ dbm.table
    /\ IF op = "addExpense"
       THEN /\ dbm.added < MaxStore - 1
            /\ dbm' = [dbm EXCEPT !.operation = OperationCalled(op, "resolved"),
                                  !.added = dbm.added + 1]
            /\ store' = Append(store, InsertedRow(lastID + 1, ExpenseOf(StartBody)))
            /\ lastID' = lastID + 1
       ELSE /\ dbm' = [dbm EXCEPT !.operation = OperationCalled(op, "resolved")]
            /\ UNCHANGED <<store, lastID>>
    /\ UNCHANGED <<clock, reqs, response, fnArgs, fnResult, query, cloud>>

NextStart ==
    \/ OpenResolved
    \/ OpenRejected
    \/ ConnectResolved
    \/ ConnectRejected
    \/ CreateResolved
    \/ CreateRejected
    \/ CountResolved
    \/ CountRejected
    \/ SampleInserted
    \/ SampleRejected
    \/ \E op \in StoreOperations : OperationRejected(op)
    \/ \E op \in StoreOperations : OperationResolved(op)

SpecStart == InitStart /\ [][NextStart]_vars

-----------------------------------------------------------------------------
(* Properties of the insight functions *)

\* C5: predictNextMonth returns 0 for a sequence of length 0 or 1; for length
\* >= 2 it returns max(0, 2 * first total - second total), whatever follows the
\* first two entries; the result is never negative.
C5_PredictNextMonth ==
    fnResult.fn = "predictNextMonth" =>
        LET m == fnArgs.monthlyTotals
            x == fnResult.value
        IN /\ x >= 0
           /\ Len(m) <= 1 => x = 0
           /\ Len(m) >= 2 =>
                /\ 2 * m[1].total - m[2].total >= 0 => x = 2 * m[1].total - m[2].total
                /\ 2 * m[1].total - m[2].total < 0 => x = 0

\* a call with three months of history whose extrapolation is positive
C5_Witness ==
    /\ fnResult.fn = "predictNextMonth"
    /\ Len(fnArgs.monthlyTotals) = 3
    /\ fnArgs.monthlyTotals[1].total > fnArgs.monthlyTotals[2].total
    /\ fnResult.value > fnArgs.monthlyTotals[1].total

\* C6: generateInsights gives a recommendation iff the first category total is
\* strictly more than half of the sum of all category totals; it names the
\* first category; there is never more than one recommendation.
C6_Recommendation ==
    fnResult.fn = "generateInsights" =>
        LET c == fnArgs.categoryTotals
            r == fnResult.insights.recommendations
            all == SumTotal(c)
        IN /\ Len(r) <= 1
           /\ Len(c) = 0 => Len(r) = 0
           /\ Len(c) > 0 => (Len(r) = 1 <=> 2 * c[1].total > all)
           /\ Len(r) = 1 => r[1].category = c[1].category

\* a call where the first category holds exactly half: no recommendation
C6_Witness ==
    /\ fnResult.fn = "generateInsights"
    /\ Len(fnArgs.categoryTotals) >= 2
    /\ fnArgs.categoryTotals[1].total > 0
    /\ 2 * fnArgs.categoryTotals[1].total = SumTotal(fnArgs.categoryTotals)
    /\ fnResult.insights.recommendations = <<>>

\* the positions of the expenses whose amount is more than twice the mean
AnomalousAt(expenses) ==
    {i \in 1..Len(expenses) :
        expenses[i].amount * Len(expenses) > 2 * SumAmount(expenses)}

-----------------------------------------------------------------------------
(* Properties of the routes *)

RECURSIVE SumOfRows(_)
SumOfRows(S) ==
    IF S = {} THEN 0
    ELSE LET x == CHOOSE y \in S : TRUE IN x.amount + SumOfRows(S \ {x})

\* the response of the current turn is a /report report
ReportSent == response.status = 200 /\ response.req.kind = "report"

\* the response of the current turn answers a /report or /ai-insights request
\* whose three reads resolved
ReadsSent == response.status = 200 /\ response.req.kind \in {"report", "ai-insights"}

\* no insert happened between the three reads of the answered request
SameMoment(req) ==
    \A j, k \in ReadNames : req.rd[j].at = req.rd[k].at

\* C1: in every report budgetLimit is 5000 and isOverBudget is true iff the
\* report's own totalSpending field is strictly greater than 5000.
C1_OverBudgetIffTotalSpendingOver5000 ==
    ReportSent =>
        /\ response.body.budgetLimit = Units(5000)
        /\ response.body.isOverBudget <=> response.body.totalSpending > Units(5000)

\* C2: when no insert happens between the three reads of a /report request, the
\* category totals partition the returned expenses: every record is counted
\* in exactly one category total, and the totals add up to the sum of amounts.
C2_CategoryTotalsPartition ==
    (ReportSent /\ SameMoment(response.req)) =>
        LET e == response.body.expenses
            c == response.body.categoryTotals
        IN /\ SumTotal(c) = SumAmount(e)
           /\ \A i, j \in 1..Len(c) : c[i].category = c[j].category => i = j
           /\ \A i \in 1..Len(e) : \E j \in 1..Len(c) : c[j].category = e[i].category
           /\ \A j \in 1..Len(c) :
                c[j].total = SumOfRows({x \in Range(e) : x.category = c[j].category})

\* a report read at one moment with three records in two categories
C2_Witness ==
    /\ ReportSent
    /\ SameMoment(response.req)
    /\ Len(response.body.expenses) = 3
    /\ Len(response.body.categoryTotals) = 2

\* C3: each of the three reads reflects the table at the moment of that read
\* and nothing ties the three moments together, so that an insert between two
\* reads shows in one result and not in the other (the torn result is the
\* witness C3_Torn).
C3_EachReadReflectsItsOwnMoment ==
    ReadsSent =>
        LET req == response.req
            ym == yearMonthOf(req.year, req.month)
            AsOf(id) == {x \in Range(store) : x.id <= id}
            OfMonth(S) == {x \in S : MonthKey(x.date) = ym}
        IN /\ Range(req.rd["expenses"].rows) = OfMonth(AsOf(req.rd["expenses"].at))
           /\ Len(req.rd["expenses"].rows) = Cardinality(Range(req.rd["expenses"].rows))
           /\ SumTotal(req.rd["categoryTotals"].rows)
                = SumOfRows(OfMonth(AsOf(req.rd["categoryTotals"].at)))
           /\ SumTotal(req.rd["monthlyTotals"].rows)
                = SumOfRows(AsOf(req.rd["monthlyTotals"].at))

\* a response whose expenses hold a record that its category totals and its
\* monthly totals do not count
C3_Torn ==
    /\ ReadsSent
    /\ \E x \in Range(response.req.rd["expenses"].rows) :
          /\ x.id > response.req.rd["categoryTotals"].at
          /\ x.id > response.req.rd["monthlyTotals"].at
    /\ SumTotal(response.req.rd["categoryTotals"].rows)
          # SumAmount(response.req.rd["expenses"].rows)

\* C4: if one of the three reads of a /report or /ai-insights request fails,
\* the request is answered with status 500 and a body that holds the error
\* message only, and no read was started a second time.
C4_FailedReadAborts ==
    (response.status # 0 /\ response.req.kind \in {"report", "ai-insights"}) =>
        LET req == response.req
            failed == \E k \in ReadNames : req.rd[k].st = "failed"
        IN /\ failed <=> response.status = 500
           /\ failed => DOMAIN response.body = {"error"}
           /\ req.calls = Cardinality(ReadNames)

\* a 500 response of a request one of whose reads had returned rows
C4_Witness ==
    /\ response.status = 500
    /\ response.req.kind \in {"report", "ai-insights"}
    /\ \E k \in ReadNames :
          response.req.rd[k].st = "ok" /\ response.req.rd[k].rows # <<>>

\* C8: totalSpending of a report is the sum of amount over the expenses of the
\* same report rounded to 2 decimal places (a whole number of cents, the
\* nearest one, halves rounded up).
C8_TotalSpendingRounded ==
    ReportSent =>
        LET sum == SumAmount(response.body.expenses)
            t == response.body.totalSpending
        IN /\ t % 10 = 0
           /\ t - sum <= 5
           /\ sum - t < 5

\* a report whose sum of amounts lies halfway between two cents
C8_Witness ==
    /\ ReportSent
    /\ SumAmount(response.body.expenses) % 10 = 5
    /\ response.body.totalSpending = SumAmount(response.body.expenses) + 5

\* a positive number, or a text that reads as one
PositiveNumber(x) == LET n == ToNumber(x) IN n.t = "number" /\ n.v > 0

\* C9: a POST /add-expense whose date, category or amount is missing or whose
\* amount is not a positive number is answered with status 400 without calling
\* the store; only requests with date, category and a positive numeric amount
\* reach the store's insert.
C9_OnlyValidReachTheStore ==
    /\ \A c \in Clients :
          reqs[c].kind = "add-expense" =>
              /\ Truthy(reqs[c].body.date)
              /\ Truthy(reqs[c].body.category)
              /\ PositiveNumber(reqs[c].body.amount)
    /\ (response.status # 0 /\ response.req.kind = "add-expense"
            /\ ~PositiveNumber(response.req.body.amount)) =>
          (response.status = 400 /\ response.req.calls = 0)

\* the ids of the stored rows are pairwise distinct
DistinctIds == \A i, j \in 1..Len(store) : store[i].id = store[j].id => i = j

\* a 201 response returns the fields given to addExpense with the id of the
\* row that now holds them
InsertReturnsRow ==
    (response.status = 201) =>
        LET sub == ExpenseOf(response.req.body)
            ret == response.body.expense
        IN /\ ret.date = sub.date
           /\ ret.category = sub.category
           /\ ret.amount = sub.amount
           /\ ret.description = sub.description
           /\ \E i \in 1..Len(store) :
                /\ store[i].id = ret.id
                /\ store[i].date = sub.date.s
                /\ store[i].category = sub.category.s
                /\ store[i].amount = sub.amount.v
                /\ store[i].description = sub.description.s

\* every step keeps the stored rows as they are and at most adds rows
StoreOnlyGrows ==
    /\ Len(store') >= Len(store)
    /\ SubSeq(store', 1, Len(store)) = store

\* C10: stored records have pairwise distinct ids, each insert returns the
\* submitted fields with the assigned id, and no operation changes or removes
\* a stored record.
C10_RecordsDistinctAndImmutable ==
    /\ [](DistinctIds /\ InsertReturnsRow)
    /\ [][StoreOnlyGrows]_vars

\* a second insert has been answered
C10_Witness ==
    /\ response.status = 201
    /\ Len(store) >= 2
    /\ response.body.expense.id = store[Len(store)].id

-----------------------------------------------------------------------------
(* Properties of the store queries *)

\* the year-month a date or a month key YYYY-MM... denotes, as a number of months
MonthNumber(text) == DigitsValue(SubSeq(text, 1, 4)) * 12 + DigitsValue(SubSeq(text, 6, 7))

\* the stored rows dated in the year-month numbered n
StoredIn(n) == {row \in Range(store) : MonthNumber(row.date) = n}

\* the stored rows dated in the month the query was called with
StoredInQueryMonth == StoredIn(query.year * 12 + query.month)

\* C12: getMonthlyTotals returns at most 6 entries, one per distinct year-month
\* of the store, strictly descending by month key, namely the 6 most recent
\* year-months that have records; each total is the sum of the amounts of the
\* records of that year-month.
C12_MonthlyTotals ==
    query.op = "getMonthlyTotals" =>
        LET r == query.rows
            present == {MonthNumber(row.date) : row \in Range(store)}
        IN /\ Len(r) <= 6
           /\ Len(r) = IF Cardinality(present) < 6 THEN Cardinality(present) ELSE 6
           /\ \A i \in 1..Len(r) - 1 :
                 /\ TextLess(r[i + 1].month, r[i].month)
                 /\ MonthNumber(r[i + 1].month) < MonthNumber(r[i].month)
           /\ \A i \in 1..Len(r) :
                 /\ MonthNumber(r[i].month) \in present
                 /\ r[i].total = SumOfRows(StoredIn(MonthNumber(r[i].month)))
           /\ \A n \in present :
                 \/ \E i \in 1..Len(r) : MonthNumber(r[i].month) = n
                 \/ Cardinality({x \in present : x > n}) >= 6

\* seven year-months are stored, the oldest is left out and a month of two
\* records is totalled
C12_Witness ==
    /\ query.op = "getMonthlyTotals"
    /\ Cardinality({MonthNumber(row.date) : row \in Range(store)}) > 6
    /\ Len(query.rows) = 6
    /\ \E i \in 1..6 : Cardinality(StoredIn(MonthNumber(query.rows[i].month))) = 2

\* C13: getCategoryTotals(year, month) returns one entry per distinct category
\* among the records of that month, each total at least the next one, so the
\* first entry has the maximum total.
C13_CategoryTotalsOrdered ==
    query.op = "getCategoryTotals" =>
        LET r == query.rows
            cats == {row.category : row \in StoredInQueryMonth}
        IN /\ Len(r) = Cardinality(cats)
           /\ {r[i].category : i \in 1..Len(r)} = cats
           /\ \A i \in 1..Len(r) :
                 r[i].total = SumOfRows({row \in StoredInQueryMonth :
                                            row.category = r[i].category})
           /\ \A i \in 1..Len(r) - 1 : r[i].total >= r[i + 1].total
           /\ \A i \in 1..Len(r) : r[1].total >= r[i].total

\* the category seen first has the smaller total and comes second
C13_Witness ==
    /\ query.op = "getCategoryTotals"
    /\ Len(query.rows) = 2
    /\ query.rows[1].total > query.rows[2].total
    /\ \E i \in 1..Len(store) :
          /\ store[i] \in StoredInQueryMonth
          /\ store[i].category = query.rows[2].category
          /\ \A j \in 1..i - 1 : store[j].category # query.rows[1].category

\* the table left when rows i and i + 1 were inserted the other way round
Exchanged(table, i) ==
    [j \in 1..Len(table) |->
        [table[IF j = i THEN i + 1 ELSE IF j = i + 1 THEN i ELSE j] EXCEPT !.id = j]]

\* the table left when the rows were inserted in the opposite order
Reversed(table) ==
    [j \in 1..Len(table) |-> [table[Len(table) + 1 - j] EXCEPT !.id = j]]

\* tables of the same records inserted in another order: two neighbours
\* exchanged (every order is reached by such exchanges) or the whole order
\* reversed
Reorderings(table) ==
    {Exchanged(table, i) : i \in 1..Len(table) - 1} \cup {Reversed(table)}

C15_ExpensesOfMonth ==
    query.op = "getExpensesByMonth" =>
        LET r == query.rows
        IN /\ Range(r) = StoredInQueryMonth
           /\ Len(r) = Cardinality(StoredInQueryMonth)
           /\ \A i \in 1..Len(r) - 1 : ~TextLess(r[i].date, r[i + 1].date)

\* records of the month are returned in another order than they are stored,
\* and records of the same month of another year are left out
C15_Witness ==
    /\ query.op = "getExpensesByMonth"
    /\ Len(query.rows) >= 2
    /\ query.rows[1].id > query.rows[2].id
    /\ \E row \in Range(store) :
          /\ row \notin Range(query.rows)
          /\ MonthNumber(row.date) % 12 = query.month % 12

-----------------------------------------------------------------------------
(* Frame of the read routes *)

\* the rows read k of the answered request returned, from the table as it was
\* when the read resolved
RowsReturned(req, k) ==
    LET table == SubSeq(store, 1, req.rd[k].at)
    IN CASE k = "expenses" -> getExpensesByMonth(table, req.year, req.month)
         [] k = "categoryTotals" -> getCategoryTotals(table, req.year, req.month)
         [] k = "monthlyTotals" -> getMonthlyTotals(table)

\* the arrays the /ai-insights handler holds after generateInsights are the
\* arrays its reads returned
ArgumentsKept ==
    (ReadsSent /\ response.req.kind = "ai-insights") =>
        \A k \in ReadNames : response.req.rd[k].rows = RowsReturned(response.req, k)

\* the table changes only in the step that answers an /add-expense request
OnlyInsertWrites ==
    store' # store =>
        /\ response'.status = 201
        /\ response'.req.kind = "add-expense"
        /\ \A c \in Clients :
              reqs[c].kind \in {"expenses", "report", "ai-insights"} => reqs'[c] = reqs[c]

\* C16: serving GET /report, GET /ai-insights and GET /expenses leaves the
\* stored records unchanged, and generateInsights and predictNextMonth leave
\* the sequences passed to them as they were.
C16_ReadsChangeNothing == []ArgumentsKept /\ [][OnlyInsertWrites]_vars

\* insights computed from a non-empty table: two months of history, two
\* categories and two expenses have been through the functions
C16_Witness ==
    /\ ReadsSent
    /\ response.req.kind = "ai-insights"
    /\ Len(response.req.rd["expenses"].rows) >= 2
    /\ Len(response.req.rd["categoryTotals"].rows) >= 2
    /\ Len(response.req.rd["monthlyTotals"].rows) >= 2
    /\ store # <<>>

-----------------------------------------------------------------------------
(* Properties of the cloud sync service *)

\* a disabled service has no timer, no request to a provider sent or awaited,
\* and the call that returned last returned a failure
DisabledIsInert ==
    ~cloud.enabled =>
        /\ ~cloud.timer
        /\ cloud.contacts = 0
        /\ cloud.pending = "none"
        /\ cloud.result.fn # "none" => ~cloud.result.success

\* no step of a disabled service changes enabled, isOnline or lastSyncTime
DisabledKeepsState ==
    ~cloud.enabled =>
        /\ cloud'.enabled = cloud.enabled
        /\ cloud'.isOnline = cloud.isOnline
        /\ cloud'.lastSyncTime = cloud.lastSyncTime
        /\ cloud'.contacts = cloud.contacts

\* C17: while cloud sync is not enabled (the default) the service is inert: no
\* periodic timer is started and every call of syncToCloud, syncExpense,
\* syncAllExpenses, syncFromCloud and testConnection returns a failure result
\* without contacting a provider and without changing enabled, isOnline or
\* lastSyncTime.
C17_DisabledCloudSyncIsInert == []DisabledIsInert /\ [][DisabledKeepsState]_vars

\* a disabled service has answered several calls, the last one testConnection
C17_Witness ==
    /\ ~cloud.enabled
    /\ cloud.calls >= 2
    /\ cloud.result.fn = "testConnection"
    /\ cloud.isOnline
    /\ cloud.lastSyncTime = 0

-----------------------------------------------------------------------------
(* One response per request *)

\* this step writes a response to client c
ResponseWritten(c) ==
    /\ response.status = 0
    /\ response'.status # 0
    /\ response'.client = c

\* a request in flight still waits for a store operation: a request whose
\* operations have all settled, or one of whose reads has failed, is not left
\* unanswered
InFlightAwaitsStore ==
    \A c \in Clients :
        /\ reqs[c].kind \in {"report", "ai-insights"} =>
              /\ \E k \in ReadNames : reqs[c].rd[k].st = "pending"
              /\ \A k \in ReadNames : reqs[c].rd[k].st \in {"pending", "ok"}
        /\ response.status # 0 => response.client \in Clients

\* a request leaves the handler exactly in the step that writes its response,
\* with the status of its path, and nothing of it stays behind to be answered
\* again
AnsweredOnce ==
    \A c \in Clients :
        /\ (reqs[c].kind # "idle" /\ reqs'[c] # reqs[c] /\ ~ResponseWritten(c)) =>
              /\ reqs'[c].kind = reqs[c].kind
              /\ \E k \in ReadNames : reqs'[c].rd[k].st = "pending"
        /\ ResponseWritten(c) =>
              /\ reqs'[c].kind = "idle"
              /\ response'.req.kind \in {"add-expense", "expenses", "report", "ai-insights"}
              /\ \/ reqs[c].kind = response'.req.kind
                 \/ reqs[c].kind = "idle" /\ response'.status = 400
              /\ response'.status \in {200, 201, 400, 500}
              /\ \A d \in Clients \ {c} : reqs'[d] = reqs[d]

\* C18: every request to /add-expense, /expenses, /report and /ai-insights
\* receives exactly one response once its store operations have settled, never
\* zero and never two, on the validation-error, success and store-failure
\* paths alike.
C18_ExactlyOneResponse == []InFlightAwaitsStore /\ [][AnsweredOnce]_vars

\* a read was rejected and answered with 500 while the other two reads of the
\* request were still pending
C18_Witness ==
    /\ response.status = 500
    /\ response.req.kind \in {"report", "ai-insights"}
    /\ Cardinality({k \in ReadNames : response.req.rd[k].st = "pending"}) = 2
    /\ reqs[response.client].kind = "idle"

-----------------------------------------------------------------------------
(* The period of a report *)

\* the months the wall clock has shown so far
MonthsShown ==
    {t \in [year : 2024..clock.year, month : 1..12] : Ticks(t) >= 0 /\ Ticks(t) <= Ticks(clock)}

\* C19: the (year, month) pair a GET /report or GET /ai-insights request
\* queries with is the year and the month of one instant of the clock, never
\* the year of one month and the month of another, also when the clock passes
\* a month or year boundary while the request is handled.
C19_PeriodIsOneInstant ==
    \A c \in Clients :
        reqs[c].kind \in {"report", "ai-insights"} =>
            [year |-> reqs[c].year, month |-> reqs[c].month] \in MonthsShown

-----------------------------------------------------------------------------
(* Store operations during the start-up *)

\* C20: no store operation is executed before the initialization started by
\* the DatabaseManager constructor has set the connection and created the
\* table: an operation called by a request does not run while the connection
\* is null or not open, before the table exists, or with a backend type that
\* the SQLite fallback replaces afterwards.
C20_NoOperationBeforeInitialized ==
    dbm.operation.op # "none" =>
        /\ dbm.operation.db # "null"
        /\ dbm.operation.open
        /\ dbm.operation.table
        /\ dbm.operation.type = dbm.type

-----------------------------------------------------------------------------
(* The SQLite fallback *)

Backends == {"sqlite", "mysql", "postgresql"}

\* the start-up has reported a failure of the configured backend: an error
\* thrown inside initializeDatabase, or a CREATE TABLE that failed on it
ConfiguredBackendFailed ==
    \/ "Database initialization failed" \in dbm.log
    \/ "Error creating tables" \in dbm.log /\ ~dbm.fallback

\* C21: if the configured backend is not SQLite and its initialization fails,
\* or the configured type is unsupported, the manager switches its type to
\* sqlite and initializes SQLite and the table; once the initialization has
\* finished the type is one of sqlite, mysql, postgresql; a configured SQLite
\* that fails is not followed by a fallback.
C21_FallbackToSQLite ==
    /\ dbm.pc \in {"done", "failed"} => dbm.type \in Backends
    /\ dbm.configured = "sqlite" => ~dbm.fallback /\ dbm.type = "sqlite"
    /\ (dbm.configured # "sqlite" /\ ConfiguredBackendFailed) =>
          /\ dbm.fallback
          /\ dbm.type = "sqlite"
          /\ dbm.db = "sqlite"
          /\ dbm.pc = "done" => dbm.open

-----------------------------------------------------------------------------
(* The sample data *)

\* C22: the sample records are added only by a start that found zero stored
\* records: whenever the start is inserting samples or has inserted some, the
\* table held no record when the COUNT query of insertSampleData settled,
\* also when that query failed.
C22_SamplesOnlyIntoEmptyTable ==
    (dbm.pc = "inserting" \/ dbm.seeded > 0) => dbm.counted = 0

-----------------------------------------------------------------------------
(* The offline state of the cloud sync service *)

\* the methods that are a call of syncToCloud
SyncToCloudNames == {"syncToCloud", "syncExpense", "syncAllExpenses"}

\* this step is the call of a method of the service
IsCall == cloud'.calls # cloud.calls

\* this step is the return of a method of the service
IsReturn == cloud'.pending = "none" /\ (IsCall \/ cloud.pending # "none")

\* the method that is called
CalledName == IF cloud'.pending # "none" THEN cloud'.pending ELSE cloud'.result.fn

\* a syncToCloud of an enabled service that returns a failure leaves isOnline
\* false
FailedSyncGoesOffline ==
    (cloud.enabled /\ IsReturn /\ cloud'.result.fn \in SyncToCloudNames
        /\ ~cloud'.result.success) => ~cloud'.isOnline

\* syncToCloud and syncFromCloud called while isOnline is false return a
\* failure at once and send no request to the provider
OfflineCallContactsNobody ==
    (IsCall /\ ~cloud.isOnline /\ CalledName \in SyncToCloudNames \cup {"syncFromCloud"}) =>
        /\ IsReturn
        /\ ~cloud'.result.success
        /\ cloud'.contacts = cloud.contacts
        /\ ~cloud'.isOnline

\* lastSyncTime is assigned only by a syncToCloud that succeeds, that of
\* testConnection included
LastSyncTimeOnlyOnSuccess ==
    cloud'.lastSyncTime # cloud.lastSyncTime =>
        /\ IsReturn
        /\ \/ cloud'.result.fn \in SyncToCloudNames /\ cloud'.result.success
           \/ cloud'.result.fn = "testConnection" /\ cloud'.result.result = "success"

\* C23: with cloud sync enabled a failed syncToCloud sets isOnline to false;
\* while isOnline is false every syncToCloud and syncFromCloud returns a
\* failure without contacting the provider; with a timer that keeps firing an
\* offline service is eventually online again; lastSyncTime changes only on a
\* successful sync.
C23_OfflineUntilTimer ==
    /\ [][FailedSyncGoesOffline]_vars
    /\ [][OfflineCallContactsNobody]_vars
    /\ [][LastSyncTimeOnlyOnSuccess]_vars
    /\ (cloud.enabled /\ ~cloud.isOnline) ~> cloud.isOnline

\* the request of a syncToCloud failed, the next syncToCloud was refused
\* without a request, and the timer has put the service online again
C23_Witness ==
    /\ cloud.enabled
    /\ cloud.isOnline
    /\ cloud.calls >= 2
    /\ cloud.contacts = 1
    /\ cloud.lastSyncTime = 0
    /\ cloud.pending = "none"
    /\ cloud.result.fn \in SyncToCloudNames
    /\ ~cloud.result.success

-----------------------------------------------------------------------------
(* The connection test *)

\* testConnection of an enabled service returns in this step
TestConnectionReturns ==
    cloud.enabled /\ IsReturn /\ cloud'.result.fn = "testConnection"

\* what testConnection reports agrees with the probe: success and an online
\* service only after a syncToCloud that succeeded, a failure and an offline
\* service after one that failed
ReportsTheProbe ==
    TestConnectionReturns =>
        /\ (cloud'.result.success /\ cloud'.isOnline) => cloud'.result.result = "success"
        /\ cloud'.result.result = "failure" => ~cloud'.result.success /\ ~cloud'.isOnline

\* C24: with cloud sync enabled testConnection returns success true and leaves
\* isOnline true only if its probe sync to the provider succeeded; when the
\* probe sync fails it returns success false and leaves isOnline false.
C24_TestConnectionReportsTheProbe == [][ReportsTheProbe]_vars

=============================================================================
